---------------------------- MODULE Spec2Model ----------------------------
(***************************************************************************)
(* ARIMATradingAlgorithm (src/src/trading/arima_algorithm.py): threshold   *)
(* signal generation and the single-asset backtest loop.                    *)
(*                                                                         *)
(* Prices, cash and share counts are integers (price units).  Quantities   *)
(* the code computes by true division (expected_return, confidence, the    *)
(* returns of the result) are kept as fractions num/den with a kind that   *)
(* tells a finite value from the IEEE results inf, -inf and nan that numpy *)
(* produces on a division by zero.  The statsmodels fit is external: a     *)
(* fitted model is represented by the forecast path it produces.           *)
(***************************************************************************)
EXTENDS Integers, Sequences, FiniteSets, TLC

MaxPrice == 3
MaxLen == 4
MaxCapital == 5
MaxSteps == 2
MaxGrid == 4
MaxAic == 2
MaxSymbols == 2
MaxTrades == 3
MinHistory == 100

Prices == 1..MaxPrice
Capitals == 1..MaxCapital
Horizons == {1, 2}
MaxHorizon == CHOOSE h \in Horizons : \A k \in Horizons : k <= h

\* ------------------------------------------------------------------------
\* float arithmetic
\* ------------------------------------------------------------------------
R(n, d) == [kind |-> "fin", num |-> n, den |-> d]
NaN == [kind |-> "nan", num |-> 0, den |-> 1]
Inf == [kind |-> "inf", num |-> 1, den |-> 1]
NegInf == [kind |-> "ninf", num |-> -1, den |-> 1]
One == R(1, 1)

Thresholds == {R(0, 1), R(1, 50), R(1, 2)}
TrainSizes == {R(1, 4), R(4, 5), R(1, 1)}

\* x / y for finite x and finite y >= 0 (numpy float64 true division)
FDiv(x, y) ==
    IF y.num = 0
    THEN IF x.num = 0 THEN NaN ELSE IF x.num > 0 THEN Inf ELSE NegInf
    ELSE R(x.num * y.den, x.den * y.num)

FAdd(x, y) == R(x.num * y.den + y.num * x.den, x.den * y.den)

FSub(x, y) == R(x.num * y.den - y.num * x.den, x.den * y.den)

FNeg(x) == R(-x.num, x.den)

FAbs(x) == IF x.num < 0 THEN R(-x.num, x.den) ELSE x

\* x > y for finite x, y
FGt(x, y) == x.num * y.den > y.num * x.den

\* x < y for finite x, y
FLt(x, y) == x.num * y.den < y.num * x.den

\* Python min(x, 1.0): 1.0 when 1.0 < x, else x (so a nan stays a nan)
FMin1(x) ==
    IF x.kind = "inf" THEN One
    ELSE IF x.kind = "fin" /\ x.num > x.den THEN One
    ELSE x

\* 1.0 - x
FOneMinus(x) ==
    IF x.kind = "nan" THEN NaN
    ELSE IF x.kind = "inf" THEN NegInf
    ELSE IF x.kind = "ninf" THEN Inf
    ELSE R(x.den - x.num, x.den)

\* ------------------------------------------------------------------------
\* state
\* ------------------------------------------------------------------------
VARIABLES
    confidence_threshold,  \* self.confidence_threshold
    prediction_horizon,    \* self.prediction_horizon
    model,                 \* self.model: None or a fitted model
    predictions,           \* self.predictions: None or a forecast frame
    signals,               \* self.signals: the audit log
    pc,                    \* position inside backtest
    test_data,             \* backtest: the test partition
    initial_capital,       \* backtest: the argument
    i,                     \* backtest: loop index (0-based, next step)
    portfolio,             \* backtest: the portfolio dict
    results,               \* backtest: the returned dict
    error,                 \* exception raised by the latest call ("none")
    call,                  \* arguments of the latest generate_signals call
    signal,                \* value returned by the latest generate_signals
    search,                \* locals of the running find_optimal_order
    run,                   \* locals of the running backtest_portfolio
    trader,                \* the ARIMAPortfolioTrader and its trade history
    backtests,             \* number of backtest calls made on the instance
    gen                    \* locals of the running generate_portfolio_signals

vars == <<confidence_threshold, prediction_horizon, model, predictions,
          signals, pc, test_data, initial_capital, i, portfolio, results,
          error, call, signal, search, run, trader, backtests, gen>>

NoModel == [fitted |-> FALSE, path |-> <<>>]
NoFrame == [none |-> TRUE, prediction |-> <<>>]
Frame(s) == [none |-> FALSE, prediction |-> s]

NoPortfolio ==
    [cash |-> 0, shares |-> 0, total_value |-> 0, trades |-> <<>>,
     portfolio_values |-> <<>>]

NoResults ==
    [initial_capital |-> 0, final_value |-> 0, total_return |-> NaN,
     buy_hold_return |-> NaN, excess_return |-> NaN, num_trades |-> 0,
     portfolio |-> NoPortfolio]

NoCall == [made |-> FALSE, current_price |-> 1, predictions |-> NoFrame]
NoSignal == [action |-> "NONE", confidence |-> NaN, reason |-> "none"]

\* a fitted candidate of the grid search, and "best_model = None"
FittedCandidate(order, aic) == [fitted |-> TRUE, order |-> order, aic |-> aic]
NoFit == [fitted |-> FALSE, order |-> <<>>, aic |-> 0]

\* no find_optimal_order call is running; best_order = None is <<>>
NoSearch ==
    [pc |-> "none", max_p |-> 0, max_d |-> 0, max_q |-> 0,
     is_stationary |-> FALSE, d_range |-> <<>>,
     d_idx |-> 1, p |-> 0, q |-> 0, best_aic |-> Inf, best_order |-> <<>>,
     best_model |-> NoFit, results |-> <<>>, attempted |-> <<>>]

\* no backtest_portfolio call is running
NoRun ==
    [pc |-> "none", symbols |-> <<>>, idx |-> 1, initial_capital |-> 0,
     portfolio_value |-> R(0, 1), trades |-> 0, handed |-> <<>>,
     refreshes |-> 0, results |-> [returned |-> FALSE]]
\* no ARIMAPortfolioTrader is constructed; performance_metrics = {}
NoTrader ==
    [pc |-> "none", initial_capital |-> 0, trading_history |-> <<>>,
     performance_metrics |-> [computed |-> FALSE]]

\* no trading cycle has run: arima_algo.model and arima_algo.predictions
\* are None, trading_history is []
NoGen ==
    [pc |-> "none", initial_capital |-> 0, model |-> NoModel,
     predictions |-> NoFrame, stocks |-> <<>>, idx |-> 1, signals |-> <<>>,
     submitted |-> <<>>, executed_trades |-> <<>>, trading_history |-> <<>>]

Init ==
    /\ confidence_threshold \in Thresholds
    /\ prediction_horizon \in Horizons
    /\ model = NoModel
    /\ predictions = NoFrame
    /\ signals = <<>>
    /\ pc = "idle"
    /\ test_data = <<>>
    /\ initial_capital = 0
    /\ i = 0
    /\ portfolio = NoPortfolio
    /\ results = NoResults
    /\ error = "none"
    /\ call = NoCall
    /\ signal = NoSignal
    /\ search = NoSearch
    /\ run = NoRun
    /\ trader = NoTrader
    /\ backtests = 0
    /\ gen = NoGen

Last(s) == s[Len(s)]

\* model.forecast(steps=n) of a fitted model
Forecast(m, n) == SubSeq(m.path, 1, n)


\* ------------------------------------------------------------------------
\* generate_signals
\* ------------------------------------------------------------------------
PredictedPriceFirst(p) == Head(p.prediction)

\* predictions['prediction'].iloc[-1]
PredictedPrice(p) == Last(p.prediction)

\* (predicted_price - current_price) / current_price
ExpectedReturn(predicted_price, current_price) ==
    R(predicted_price - current_price, current_price)

\* the dict built from the forecast p that generate_signals settled on
SignalFrom(current_price, p, threshold) ==
        IF p.none \/ p.prediction = <<>>
        THEN [action |-> "HOLD", confidence |-> R(0, 1),
              reason |-> "No predictions available"]
        ELSE
          LET predicted_price == PredictedPrice(p)
              expected_return == ExpectedReturn(predicted_price, current_price)
          IN  IF FGt(expected_return, threshold)
              THEN [action |-> "BUY",
                    confidence |-> FMin1(FDiv(expected_return, threshold)),
                    expected_return |-> expected_return,
                    predicted_price |-> predicted_price,
                    current_price |-> current_price,
                    reason |-> "exceeds threshold"]
              ELSE IF FLt(expected_return, FNeg(threshold))
              THEN [action |-> "SELL",
                    confidence |->
                        FMin1(FDiv(FAbs(expected_return), threshold)),
                    expected_return |-> expected_return,
                    predicted_price |-> predicted_price,
                    current_price |-> current_price,
                    reason |-> "loss exceeds threshold"]
              ELSE [action |-> "HOLD",
                    confidence |->
                        FOneMinus(FDiv(FAbs(expected_return), threshold)),
                    expected_return |-> expected_return,
                    predicted_price |-> predicted_price,
                    current_price |-> current_price,
                    reason |-> "within threshold"]

generate_signalsStoredFirst(current_price, preds, self_predictions, threshold) ==
    SignalFrom(current_price,
               IF self_predictions.none THEN preds ELSE self_predictions,
               threshold)

\* the dict generate_signals returns for (current_price, predictions), given
\* self.predictions and self.confidence_threshold: "if predictions is None:
\* predictions = self.predictions"
generate_signals(current_price, preds, self_predictions, threshold) ==
    SignalFrom(current_price,
               IF preds.none THEN self_predictions ELSE preds,
               threshold)

\* ------------------------------------------------------------------------
\* backtest: the trade rule of one step
\* ------------------------------------------------------------------------
Trade(idx, action, price, shares, value) ==
    [date |-> idx, action |-> action, price |-> price, shares |-> shares,
     value |-> value]

ExecuteBuyNoDebit(pf, current_price, idx) ==
    LET shares_to_buy == pf.cash \div current_price
        cost == shares_to_buy * current_price
    IN  [pf EXCEPT !.shares = @ + shares_to_buy,
                   !.trades = Append(@, Trade(idx, "BUY", current_price,
                                              shares_to_buy, cost))]

ExecuteBuyNoLog(pf, current_price, idx) ==
    LET shares_to_buy == pf.cash \div current_price
        cost == shares_to_buy * current_price
    IN  [pf EXCEPT !.shares = @ + shares_to_buy, !.cash = @ - cost]

ExecuteBuyRoundsUp(pf, current_price, idx) ==
    LET shares_to_buy == (pf.cash + current_price - 1) \div current_price
        cost == shares_to_buy * current_price
    IN  [pf EXCEPT !.shares = @ + shares_to_buy,
                   !.cash = @ - cost,
                   !.trades = Append(@, Trade(idx, "BUY", current_price,
                                              shares_to_buy, cost))]

\* the body of the BUY branch: buy int(cash / current_price) shares
ExecuteBuy(pf, current_price, idx) ==
    LET shares_to_buy == pf.cash \div current_price
        cost == shares_to_buy * current_price
    IN  IF shares_to_buy > 0
        THEN [pf EXCEPT !.shares = @ + shares_to_buy,
                        !.cash = @ - cost,
                        !.trades = Append(@, Trade(idx, "BUY", current_price,
                                                   shares_to_buy, cost))]
        ELSE pf

ExecuteSellLogAfterReset(pf, current_price, idx) ==
    LET revenue == pf.shares * current_price
    IN  [pf EXCEPT !.cash = @ + revenue,
                   !.trades = Append(@, Trade(idx, "SELL", current_price,
                                              0, revenue)),
                   !.shares = 0]

\* the body of the SELL branch: sell all shares
ExecuteSell(pf, current_price, idx) ==
    LET revenue == pf.shares * current_price
    IN  [pf EXCEPT !.cash = @ + revenue,
                   !.trades = Append(@, Trade(idx, "SELL", current_price,
                                              pf.shares, revenue)),
                   !.shares = 0]

ExecuteTradeUnguarded(pf, sig, current_price, idx) ==
    IF sig.action = "BUY" THEN ExecuteBuy(pf, current_price, idx)
    ELSE IF sig.action = "SELL" THEN ExecuteSell(pf, current_price, idx)
    ELSE pf

ExecuteTradeSellUnguarded(pf, sig, current_price, idx) ==
    IF sig.action = "BUY" /\ pf.cash > current_price
    THEN ExecuteBuy(pf, current_price, idx)
    ELSE IF sig.action = "SELL"
    THEN ExecuteSell(pf, current_price, idx)
    ELSE pf

\* "Execute trade based on signal"
ExecuteTrade(pf, sig, current_price, idx) ==
    IF sig.action = "BUY" /\ pf.cash > current_price
    THEN ExecuteBuy(pf, current_price, idx)
    ELSE IF sig.action = "SELL" /\ pf.shares > 0
    THEN ExecuteSell(pf, current_price, idx)
    ELSE pf

TotalValueCashOnly(pf, current_price) == pf.cash

\* "Calculate portfolio value"
TotalValue(pf, current_price) == pf.cash + pf.shares * current_price


\* ------------------------------------------------------------------------
\* inputs
\* ------------------------------------------------------------------------
PriceSeries == UNION {[1..n -> Prices] : n \in 1..MaxLen}
\* a forecast may lie above every observed price
ForecastPrices == 1..(MaxPrice + 1)
FittedModels ==
    {[fitted |-> TRUE, path |-> f] : f \in [1..MaxHorizon -> ForecastPrices]}
FrameArgs ==
    {NoFrame, Frame(<<>>)}
        \cup {Frame(f) : f \in UNION {[1..n -> Prices] : n \in 1..MaxSteps}}

\* generate_signals returns before the audit-log append in this case
NoPredictions(preds, self_predictions) ==
    LET p == IF preds.none THEN self_predictions ELSE preds
    IN  p.none \/ p.prediction = <<>>

\* ------------------------------------------------------------------------
\* direct calls on the object: a session fits and forecasts any number of
\* times and ends with one generate_signals call
\* ------------------------------------------------------------------------
\* fit_arima(train_data): the grid search either yields a fitted model or
\* none, and then self.model.summary() raises
FitArimaCall ==
    /\ UNCHANGED <<search, run, trader, backtests, gen>>
    /\ pc = "idle"
    /\ ~call.made
    /\ \E m \in FittedModels \cup {NoModel} :
          /\ model' = m
          /\ error' = IF m.fitted THEN "none" ELSE "AttributeError"
    /\ UNCHANGED <<confidence_threshold, prediction_horizon, predictions,
                   signals, pc, test_data, initial_capital, i, portfolio,
                   results, call, signal>>

\* predict_prices(steps_ahead); stored_on_error is what self.predictions
\* holds after the call raised
PredictPricesLeaving(stored_on_error) ==
    /\ UNCHANGED <<search, run, trader, backtests, gen>>
    /\ pc = "idle"
    /\ ~call.made
    /\ \E steps_ahead \in Horizons :
          IF ~model.fitted
          THEN /\ error' = "ValueError"
               /\ predictions' = stored_on_error
          ELSE /\ error' = "none"
               /\ predictions' = Frame(Forecast(model, steps_ahead))
    /\ UNCHANGED <<confidence_threshold, prediction_horizon, model, signals,
                   pc, test_data, initial_capital, i, portfolio, results,
                   call, signal>>

PredictPricesCallClears == PredictPricesLeaving(NoFrame)

\* the ValueError is raised before self.predictions is assigned
PredictPricesCall == PredictPricesLeaving(predictions)

\* generate_signals(current_price, predictions)
GenerateSignalsCall ==
    /\ UNCHANGED <<search, run, trader, backtests, gen>>
    /\ pc = "idle"
    /\ ~call.made
    /\ \E current_price \in Prices, preds \in FrameArgs :
          LET sig == generate_signals(current_price, preds, predictions,
                                      confidence_threshold)
          IN  /\ signal' = sig
              /\ call' = [made |-> TRUE, current_price |-> current_price,
                          predictions |-> preds]
              /\ signals' = IF NoPredictions(preds, predictions)
                            THEN signals
                            ELSE Append(signals, sig)
    /\ error' = "none"
    /\ UNCHANGED <<confidence_threshold, prediction_horizon, model,
                   predictions, pc, test_data, initial_capital, i, portfolio,
                   results>>

\* ------------------------------------------------------------------------
\* find_optimal_order and the fit_arima(order=None) around it
\* ------------------------------------------------------------------------
Aics == 1..MaxAic

DRangeFromZero(is_stationary, max_d) ==
    IF is_stationary THEN <<0>> ELSE [k \in 1..(max_d + 1) |-> k - 1]

\* d_range: [0] for a stationary series, else range(1, max_d + 1)
DRange(is_stationary, max_d) ==
    IF is_stationary THEN <<0>> ELSE [k \in 1..max_d |-> k]

\* number of (p, d, q) the three nested loops enumerate
GridSize(d_range, max_p, max_q) == Len(d_range) * (max_p + 1) * (max_q + 1)

\* the loop variables after the current (d, p, q): q innermost, d outermost
Advance(s) ==
    IF s.q < s.max_q THEN [s EXCEPT !.q = @ + 1]
    ELSE IF s.p < s.max_p THEN [s EXCEPT !.p = @ + 1, !.q = 0]
    ELSE [s EXCEPT !.d_idx = @ + 1, !.p = 0, !.q = 0]

\* ARIMA(order).fit() was called for the current (d, p, q); attempted is the
\* list of these calls with their outcome
Attempt(s, order, fitted) ==
    [s EXCEPT !.attempted = Append(@, [order |-> order, fitted |-> fitted])]

FitFailedAborts(s) ==
    [s EXCEPT !.d_idx = Len(s.d_range) + 1, !.p = 0, !.q = 0]

\* "except Exception: continue": on to the next (d, p, q)
FitFailed(s) == Advance(s)

AicLessOrEqual(aic, best_aic) == best_aic.kind = "inf" \/ aic <= best_aic.num

AicGreater(aic, best_aic) == best_aic.kind = "inf" \/ aic > best_aic.num

\* "aic < best_aic" with best_aic starting at np.inf
AicLess(aic, best_aic) == best_aic.kind = "inf" \/ aic < best_aic.num

\* fit_arima(train_data) enters find_optimal_order: initial locals, the
\* stationarity test and the d-range
FindOptimalOrderCall ==
    /\ pc = "idle"
    /\ search.pc = "none"
    /\ \E is_stationary \in BOOLEAN, max_p \in 0..MaxGrid,
          max_d \in 0..MaxGrid, max_q \in 0..MaxGrid :
          LET d_range == DRange(is_stationary, max_d)
          IN  /\ GridSize(d_range, max_p, max_q) <= MaxGrid
              /\ search' = [NoSearch EXCEPT !.pc = "grid", !.max_p = max_p,
                                            !.max_d = max_d, !.max_q = max_q,
                                            !.is_stationary = is_stationary,
                                            !.d_range = d_range]
    /\ UNCHANGED <<confidence_threshold, prediction_horizon, model,
                   predictions, signals, pc, test_data, initial_capital, i,
                   portfolio, results, error, call, signal, run, trader,
                   backtests, gen>>

\* one iteration of the innermost loop body for the current (d, p, q)
SearchStep ==
    /\ search.pc = "grid"
    /\ search.d_idx <= Len(search.d_range)
    /\ LET d == search.d_range[search.d_idx]
           order == <<search.p, d, search.q>>
       IN  IF search.p = 0 /\ d = 0 /\ search.q = 0
           THEN \* the (0,0,0) model is skipped
                search' = Advance(search)
           ELSE \/ \* ARIMA(...).fit() raised
                   search' = FitFailed(Attempt(search, order, FALSE))
                \/ \E aic \in Aics :
                     LET recorded ==
                           [Attempt(search, order, TRUE) EXCEPT !.results =
                               Append(@, [order |-> order, AIC |-> aic])]
                         kept ==
                           IF AicLess(aic, search.best_aic)
                           THEN [recorded EXCEPT
                                   !.best_aic = R(aic, 1),
                                   !.best_order = order,
                                   !.best_model = FittedCandidate(order, aic)]
                           ELSE recorded
                     IN  search' = Advance(kept)
    /\ UNCHANGED <<confidence_threshold, prediction_horizon, model,
                   predictions, signals, pc, test_data, initial_capital, i,
                   portfolio, results, error, call, signal, run, trader,
                   backtests, gen>>

\* the loops are exhausted: self.best_order = best_order and
\* return best_order, best_model, results
SearchReturn ==
    /\ search.pc = "grid"
    /\ search.d_idx > Len(search.d_range)
    /\ search' = [search EXCEPT !.pc = "returned"]
    /\ UNCHANGED <<confidence_threshold, prediction_horizon, model,
                   predictions, signals, pc, test_data, initial_capital, i,
                   portfolio, results, error, call, signal, run, trader,
                   backtests, gen>>

\* back in fit_arima: self.model = model, then self.model.summary()
FitArimaTail ==
    /\ search.pc = "returned"
    /\ search' = [search EXCEPT !.pc = "done"]
    /\ IF search.best_model.fitted
       THEN /\ \E m \in FittedModels : model' = m
            /\ error' = "none"
       ELSE /\ model' = NoModel
            /\ error' = "AttributeError"
    /\ UNCHANGED <<confidence_threshold, prediction_horizon,
                   predictions, signals, pc, test_data, initial_capital, i,
                   portfolio, results, call, signal, run, trader,
                   backtests, gen>>

NextOrder ==
    FindOptimalOrderCall \/ SearchStep \/ SearchReturn \/ FitArimaTail

SpecOrder == Init /\ [][NextOrder]_vars

\* ------------------------------------------------------------------------
\* backtest
\* ------------------------------------------------------------------------
\* int(len(price_data) * train_size)
SplitIdx(n, train_size) == (n * train_size.num) \div train_size.den

InitialPortfolioCarried(capital, previous) ==
    [previous EXCEPT !.cash = capital, !.total_value = capital]

\* the portfolio dict every backtest call builds anew; previous is what an
\* earlier backtest on the same instance worked on, which is never read
InitialPortfolio(capital, previous) ==
    [cash |-> capital, shares |-> 0, total_value |-> capital,
     trades |-> <<>>, portfolio_values |-> <<>>]

\* backtest(price_data, train_size, initial_capital): split, fit on the
\* train partition (m is what the fit comes to), initialise the portfolio
BacktestEnter(price_data, train_size, capital, m) ==
    /\ UNCHANGED <<search, run, trader, gen>>
    /\ backtests' = backtests + 1
    /\ LET split_idx == SplitIdx(Len(price_data), train_size)
           train_data == SubSeq(price_data, 1, split_idx)
       IN  /\ test_data' = SubSeq(price_data, split_idx + 1, Len(price_data))
           /\ initial_capital' = capital
           /\ IF train_data = <<>>
              THEN \* the stationarity test rejects an empty series
                   /\ error' = "ValueError"
                   /\ pc' = "error"
                   /\ UNCHANGED <<model, portfolio>>
              ELSE /\ model' = m
                   /\ IF m.fitted
                      THEN /\ pc' = "loop"
                           /\ error' = "none"
                           /\ portfolio' = InitialPortfolio(capital, portfolio)
                      ELSE /\ pc' = "error"
                           /\ error' = "AttributeError"
                           /\ UNCHANGED portfolio
    /\ i' = 0
    /\ UNCHANGED <<confidence_threshold, prediction_horizon, predictions,
                   signals, results, call, signal>>

\* a backtest on a fresh instance
BacktestCall ==
    /\ pc = "idle"
    /\ \E price_data \in PriceSeries, train_size \in TrainSizes,
          capital \in Capitals, m \in FittedModels \cup {NoModel} :
          BacktestEnter(price_data, train_size, capital, m)

\* one iteration of "for i in range(len(test_data) - prediction_horizon)";
\* next_model is the model the iteration leaves in self.model
BacktestStepWith(next_model) ==
    /\ UNCHANGED <<search, run, trader, backtests, gen>>
    /\ pc = "loop"
    /\ i < Len(test_data) - prediction_horizon
    /\ LET current_price == test_data[i + 1]
           temp_predictions == Frame(Forecast(model, prediction_horizon))
           sig == generate_signals(current_price, temp_predictions,
                                   predictions, confidence_threshold)
           traded == ExecuteTrade(portfolio, sig, current_price, i)
           total_value == TotalValue(traded, current_price)
       IN  /\ signal' = sig
           /\ call' = [made |-> TRUE, current_price |-> current_price,
                       predictions |-> temp_predictions]
           /\ signals' = IF NoPredictions(temp_predictions, predictions)
                         THEN signals
                         ELSE Append(signals, sig)
           /\ portfolio' =
                [traded EXCEPT !.total_value = total_value,
                               !.portfolio_values = Append(@, total_value)]
    /\ i' = i + 1
    /\ model' = next_model
    /\ UNCHANGED <<confidence_threshold, prediction_horizon,
                   predictions, pc, test_data, initial_capital, results,
                   error>>

BacktestStepRefit == \E m \in FittedModels : BacktestStepWith(m)

\* the loop body never refits ("For now, use initial model")
BacktestStep == BacktestStepWith(model)

\* the code after the loop: final metrics and the returned dict
BacktestReturn ==
    /\ UNCHANGED <<search, run, trader, backtests, gen>>
    /\ pc = "loop"
    /\ i >= Len(test_data) - prediction_horizon
    /\ IF test_data = <<>>
       THEN \* test_data.iloc[-1] on an empty partition
            /\ pc' = "error"
            /\ error' = "IndexError"
            /\ UNCHANGED results
       ELSE LET final_value == portfolio.total_value
                total_return ==
                    R(final_value - initial_capital, initial_capital)
                buy_hold_return ==
                    R(Last(test_data) - Head(test_data), Head(test_data))
            IN  /\ results' =
                     [initial_capital |-> initial_capital,
                      final_value |-> final_value,
                      total_return |-> total_return,
                      buy_hold_return |-> buy_hold_return,
                      excess_return |-> FSub(total_return, buy_hold_return),
                      num_trades |-> Len(portfolio.trades),
                      portfolio |-> portfolio]
                /\ pc' = "done"
                /\ UNCHANGED error
    /\ UNCHANGED <<confidence_threshold, prediction_horizon, model,
                   predictions, signals, test_data, initial_capital, i,
                   portfolio, call, signal>>

Next == BacktestCall \/ BacktestStep \/ BacktestReturn

Spec == Init /\ [][Next]_vars

\* ------------------------------------------------------------------------
\* one ARIMATradingAlgorithm instance running the backtests of several
\* assets in turn, as ARIMABacktester.backtest_portfolio does
\* ------------------------------------------------------------------------
\* the assets' price series: a first observation to train on, then every
\* sequence of lowest and highest prices
AssetSeries == [1..MaxLen -> {1, MaxPrice}]

\* the assets' allocations
AssetCapitals == {MaxCapital - 1, MaxCapital}

\* the fit of an asset: a forecast between the lowest and the highest
\* price, or no model
AssetModels ==
    {[fitted |-> TRUE, path |-> [k \in 1..MaxHorizon |-> 2]], NoModel}

\* self.arima_algo.backtest(price_series, ...) for the next asset
AssetBacktestCall ==
    /\ pc \in {"idle", "done"}
    /\ backtests < MaxSymbols
    /\ \E price_data \in AssetSeries, capital \in AssetCapitals,
          m \in AssetModels :
          BacktestEnter(price_data, R(1, 4), capital, m)

NextReuse == AssetBacktestCall \/ BacktestStep \/ BacktestReturn

SpecReuse == Init /\ [][NextReuse]_vars

RECURSIVE RunAlone(_, _, _, _, _, _)
\* the portfolio a backtest on a fresh instance reaches from pf at step k
RunAlone(pf, k, test, m, threshold, horizon) ==
    IF k >= Len(test) - horizon THEN pf
    ELSE LET current_price == test[k + 1]
             sig == generate_signals(current_price,
                                     Frame(Forecast(m, horizon)),
                                     NoFrame, threshold)
             traded == ExecuteTrade(pf, sig, current_price, k)
             total_value == TotalValue(traded, current_price)
         IN  RunAlone([traded EXCEPT
                         !.total_value = total_value,
                         !.portfolio_values = Append(@, total_value)],
                      k + 1, test, m, threshold, horizon)

\* ------------------------------------------------------------------------
\* ARIMABacktester.backtest_portfolio
\* ------------------------------------------------------------------------
\* symbols of the portfolio, in the order the query returns them
SymbolLists == {[k \in 1..n |-> k] : n \in 0..MaxSymbols}

\* len(data_result) of one symbol, around the threshold of line 467
HistoryLengths == {0, MinHistory - 1, MinHistory, MinHistory + 1}

\* what a per-asset backtest can come to: profit or loss, trades made
Deltas == {-1, 0, 1}
TradeCounts == {0, 1}
BacktestErrors == {"AttributeError", "ValueError"}

AllocationWhole(capital, n) == R(capital, 1)

\* initial_capital / len(symbols)
Allocation(capital, n) == R(capital, n)

RECURSIVE SumAllocations(_)
\* sum of the initial_capital arguments handed to arima_algo.backtest
SumAllocations(handed) ==
    IF handed = <<>> THEN R(0, 1)
    ELSE FAdd(SumAllocations(SubSeq(handed, 1, Len(handed) - 1)),
              Last(handed).initial_capital)

\* connect, query the symbols, initialise the aggregate
BacktestPortfolioCall ==
    /\ pc = "idle"
    /\ run.pc = "none"
    /\ \E connected \in BOOLEAN, symbols \in SymbolLists,
          capital \in Capitals :
          IF ~connected \/ symbols = <<>>
          THEN run' = [NoRun EXCEPT !.pc = "done", !.initial_capital = capital]
          ELSE run' = [NoRun EXCEPT !.pc = "loop", !.symbols = symbols,
                                    !.initial_capital = capital,
                                    !.portfolio_value = R(capital, 1)]
    /\ UNCHANGED <<confidence_threshold, prediction_horizon, model,
                   predictions, signals, pc, test_data, initial_capital, i,
                   portfolio, results, error, call, signal, search, trader,
                   backtests, gen>>

\* one iteration of "for symbol in symbols"
BacktestPortfolioStep ==
    /\ run.pc = "loop"
    /\ run.idx <= Len(run.symbols)
    /\ \E length \in HistoryLengths :
          IF length < MinHistory
          THEN \* "Insufficient data": continue; the data collector is
               \* not asked for more, so refreshes stays as it is
               /\ run' = [run EXCEPT !.idx = @ + 1]
               /\ UNCHANGED error
          ELSE LET symbol == run.symbols[run.idx]
                   allocation ==
                       Allocation(run.initial_capital, Len(run.symbols))
                   called ==
                       [run EXCEPT !.handed =
                           Append(@, [symbol |-> symbol,
                                      initial_capital |-> allocation])]
               IN  \/ \* arima_algo.backtest raised: only "finally" runs
                      \E e \in BacktestErrors :
                         /\ run' = [called EXCEPT !.pc = "raised"]
                         /\ error' = e
                   \/ \E delta \in Deltas, num_trades \in TradeCounts :
                         LET backtest_result ==
                               [initial_capital |-> allocation,
                                final_value |->
                                    FAdd(allocation, R(delta, 1)),
                                num_trades |-> num_trades]
                         IN  /\ delta * Len(run.symbols)
                                   >= -run.initial_capital
                             /\ run' =
                                  [called EXCEPT
                                     !.idx = @ + 1,
                                     !.portfolio_value =
                                        FAdd(@, FSub(
                                          backtest_result.final_value,
                                          backtest_result.initial_capital)),
                                     !.trades = @ + num_trades]
                             /\ UNCHANGED error
    /\ UNCHANGED <<confidence_threshold, prediction_horizon, model,
                   predictions, signals, pc, test_data, initial_capital, i,
                   portfolio, results, call, signal, search, trader,
                   backtests, gen>>

\* the code after the loop: final metrics and the returned dict
BacktestPortfolioReturn ==
    /\ run.pc = "loop"
    /\ run.idx > Len(run.symbols)
    /\ run' = [run EXCEPT
                 !.pc = "done",
                 !.results =
                    [returned |-> TRUE,
                     initial_capital |-> run.initial_capital,
                     final_value |-> run.portfolio_value,
                     total_return |->
                        FDiv(FSub(run.portfolio_value,
                                  R(run.initial_capital, 1)),
                             R(run.initial_capital, 1)),
                     num_trades |-> run.trades,
                     symbols_tested |-> run.symbols]]
    /\ UNCHANGED <<confidence_threshold, prediction_horizon, model,
                   predictions, signals, pc, test_data, initial_capital, i,
                   portfolio, results, error, call, signal, search, trader,
                   backtests, gen>>

NextPortfolio ==
    BacktestPortfolioCall \/ BacktestPortfolioStep \/ BacktestPortfolioReturn

SpecPortfolio == Init /\ [][NextPortfolio]_vars

\* ------------------------------------------------------------------------
\* ARIMAPortfolioTrader: trade history and calculate_portfolio_performance
\* ------------------------------------------------------------------------
TradeSymbols == {"A", "B"}

\* the entries execute_trades appends, as far as the metrics read them
ExecutedTrades == [symbol : TradeSymbols, price : Prices]

\* the executed_trades list of one execute_trades call
ExecutedLists ==
    {<<t>> : t \in ExecutedTrades}
        \cup {<<t, u>> : t \in ExecutedTrades, u \in ExecutedTrades}

\* total_market_value the portfolio manager reports
MarketValues == 0..MaxCapital

\* 0.02 / 252
RiskFreeDaily == R(1, 12600)

RECURSIVE ReturnsFrom(_, _)
\* "for i in range(1, len(history))": price change between consecutive
\* trades of the same symbol
ReturnsFrom(history, k) ==
    IF k > Len(history) THEN <<>>
    ELSE (IF history[k - 1].symbol = history[k].symbol
          THEN <<R(history[k].price - history[k - 1].price,
                   history[k - 1].price)>>
          ELSE <<>>) \o ReturnsFrom(history, k + 1)

Returns(history) == ReturnsFrom(history, 2)

RECURSIVE FSum(_)
FSum(xs) == IF xs = <<>> THEN R(0, 1) ELSE FAdd(Head(xs), FSum(Tail(xs)))

\* np.mean(returns)
Mean(xs) == FDiv(FSum(xs), R(Len(xs), 1))

\* np.std(returns) > 0: the returns are not all equal
StdPositive(xs) ==
    \E j, k \in 1..Len(xs) : xs[j].num * xs[k].den # xs[k].num * xs[j].den

\* (avg_return - 0.02/252) / std_return; the positive std is kept symbolic
ExcessOverStd(xs) ==
    LET excess == FSub(Mean(xs), RiskFreeDaily)
    IN  IF StdPositive(xs)
        THEN [kind |-> "ratio", excess |-> excess]
        ELSE FDiv(excess, R(0, 1))

SharpeRatioUnguarded(history) ==
    LET returns == Returns(history)
    IN  IF returns # <<>> THEN ExcessOverStd(returns) ELSE R(0, 1)

\* the "Calculate Sharpe ratio (simplified)" block
SharpeRatio(history) ==
    LET returns == Returns(history)
    IN  IF Len(history) > 0
        THEN IF returns # <<>>
             THEN IF StdPositive(returns)
                  THEN ExcessOverStd(returns)
                  ELSE R(0, 1)
             ELSE R(0, 1)
        ELSE R(0, 1)

\* ARIMAPortfolioTrader(portfolio_id, initial_capital)
NewTrader ==
    /\ pc = "idle"
    /\ trader.pc = "none"
    /\ \E capital \in Capitals :
          trader' = [NoTrader EXCEPT !.pc = "ready",
                                     !.initial_capital = capital]
    /\ UNCHANGED <<confidence_threshold, prediction_horizon, model,
                   predictions, signals, pc, test_data, initial_capital, i,
                   portfolio, results, error, call, signal, search, run,
                   backtests, gen>>

\* execute_trades(signals): self.trading_history.extend(executed_trades)
ExecuteTradesCall ==
    /\ trader.pc = "ready"
    /\ \E executed_trades \in ExecutedLists :
          /\ Len(trader.trading_history) + Len(executed_trades) <= MaxTrades
          /\ trader' = [trader EXCEPT
                          !.trading_history = @ \o executed_trades]
    /\ UNCHANGED <<confidence_threshold, prediction_horizon, model,
                   predictions, signals, pc, test_data, initial_capital, i,
                   portfolio, results, error, call, signal, search, run,
                   backtests, gen>>

\* calculate_portfolio_performance()
CalculatePortfolioPerformanceCall ==
    /\ trader.pc = "ready"
    /\ \/ \* "Could not fetch portfolio details": return {}
          trader' = [trader EXCEPT !.pc = "evaluated"]
       \/ \E current_value \in MarketValues :
             trader' =
               [trader EXCEPT
                  !.pc = "evaluated",
                  !.performance_metrics =
                     [computed |-> TRUE,
                      initial_capital |-> trader.initial_capital,
                      current_value |-> current_value,
                      total_return |->
                         FDiv(R(current_value - trader.initial_capital, 1),
                              R(trader.initial_capital, 1)),
                      num_trades |-> Len(trader.trading_history),
                      sharpe_ratio |-> SharpeRatio(trader.trading_history)]]
    /\ UNCHANGED <<confidence_threshold, prediction_horizon, model,
                   predictions, signals, pc, test_data, initial_capital, i,
                   portfolio, results, error, call, signal, search, run,
                   backtests, gen>>

NextTrader ==
    NewTrader \/ ExecuteTradesCall \/ CalculatePortfolioPerformanceCall

SpecTrader == Init /\ [][NextTrader]_vars

NextSignal == FitArimaCall \/ PredictPricesCall \/ GenerateSignalsCall

SpecSignal == Init /\ [][NextSignal]_vars

\* ------------------------------------------------------------------------
\* ARIMAPortfolioTrader.run_trading_cycle: generate_portfolio_signals, then
\* execute_trades
\* ------------------------------------------------------------------------
\* steps_ahead of the forecast in generate_portfolio_signals
StepsAhead == 5

\* len(price_data) below which train_arima_model gives up
MinTrainingPoints == 30

\* ARIMATradingAlgorithm(confidence_threshold=0.02, ...)
TraderThreshold == R(1, 50)

\* max_position_size=0.2
MaxPositionSize == R(1, 5)

\* x * y for finite x, y
FMul(x, y) == R(x.num * y.num, x.den * y.den)

\* Python min(x, y) for finite x, y: y when y < x, else x
FMin(x, y) == IF FLt(y, x) THEN y ELSE x

\* int(x) for finite x with a positive denominator: truncation toward zero
IntOf(x) ==
    IF x.num >= 0 THEN x.num \div x.den ELSE -((-x.num) \div x.den)

\* rows of get_portfolio_stocks, "ORDER BY s.symbol"
StockLists ==
    {<<>>}
       \cup {<<[symbol |-> s]>> : s \in TradeSymbols}
       \cup {<<[symbol |-> "A"], [symbol |-> "B"]>>}

\* len(price_data) of the training history; 0 stands for "no data"
TrainingLengths == {0, MinTrainingPoints - 1, MinTrainingPoints}

\* forecasts of a model fitted on a symbol's history: only the last of the
\* StepsAhead values is read by generate_signals
TrainedPaths ==
    {[k \in 1..StepsAhead |-> IF k < StepsAhead THEN a ELSE b] :
        a \in {1, MaxPrice + 1}, b \in ForecastPrices}

\* best_model of find_optimal_order(price_data) for the history of symbol,
\* fetched in iteration k: symbol and iteration record where the model came
\* from; the search is not run on a history that is too short
FoundModels(symbol, k, length) ==
    IF length < MinTrainingPoints THEN {NoModel}
    ELSE {[fitted |-> TRUE, path |-> p, symbol |-> symbol,
           iteration |-> k] : p \in TrainedPaths} \cup {NoModel}

\* what get_position returns: None, or the holding's quantity as a float
NoPosition == [held |-> FALSE, quantity |-> R(0, 1)]
Positions ==
    {NoPosition}
       \cup {[held |-> TRUE, quantity |-> R(n, 2)] : n \in -1..3}

\* train_arima_model returns None and leaves self.arima_algo.model alone,
\* but hands back the model of an earlier symbol
train_arima_modelReturnsLeftover(algo_model, length, found) ==
    IF length < MinTrainingPoints \/ ~found.fitted
    THEN [returned |-> algo_model, model |-> algo_model]
    ELSE [returned |-> found, model |-> found]

\* train_arima_model(symbol): the model it returns and self.arima_algo.model
\* afterwards, for a history of the given length and the search result found
train_arima_model(algo_model, length, found) ==
    IF length < MinTrainingPoints
    THEN [returned |-> NoModel, model |-> algo_model]
    ELSE IF ~found.fitted
    THEN [returned |-> NoModel, model |-> algo_model]
    ELSE [returned |-> found, model |-> found]

\* one iteration of "for stock in stocks" in generate_portfolio_signals
SignalForStock(g, stock, length, found, current_price) ==
    LET t == train_arima_model(g.model, length, found)
    IN  IF ~t.returned.fitted
        THEN [g EXCEPT
                !.model = t.model,
                !.idx = @ + 1,
                !.signals = Append(@,
                    [symbol |-> stock.symbol,
                     length |-> length, found |-> found,
                     forecast_of |-> NoModel,
                     signal |-> [action |-> "HOLD", confidence |-> R(0, 1),
                                 reason |->
                                    "Insufficient data for prediction"]])]
        ELSE \* predict_prices(steps_ahead=5) forecasts with self.model
             LET preds == Frame(Forecast(t.model, StepsAhead))
             IN  [g EXCEPT
                    !.model = t.model,
                    !.predictions = preds,
                    !.idx = @ + 1,
                    !.signals = Append(@,
                        [symbol |-> stock.symbol,
                         length |-> length, found |-> found,
                         forecast_of |-> t.model,
                         signal |-> generate_signals(current_price, preds,
                                                     g.predictions,
                                                     TraderThreshold)])]

\* the trade is appended whatever portfolio_manager.execute_trade returned
SubmitIgnoringSuccess(g, entry, action, shares, position, success) ==
    LET trade == [symbol |-> entry.symbol, action |-> action,
                  shares |-> shares, price |-> entry.signal.current_price,
                  signal |-> entry.signal]
    IN  [g EXCEPT
           !.submitted = Append(@, [trade |-> trade, position |-> position,
                                    success |-> success]),
           !.executed_trades = Append(@, trade)]

\* portfolio_manager.execute_trade(...) and "if success:
\* executed_trades.append(...)"; submitted records every call made
Submit(g, entry, action, shares, position, success) ==
    LET trade == [symbol |-> entry.symbol, action |-> action,
                  shares |-> shares, price |-> entry.signal.current_price,
                  signal |-> entry.signal]
    IN  [g EXCEPT
           !.submitted = Append(@, [trade |-> trade, position |-> position,
                                    success |-> success]),
           !.executed_trades = IF success THEN Append(@, trade) ELSE @]

\* shares_to_buy = int(initial_capital * position_size / current_price)
SharesToBuy(capital, sig) ==
    LET position_size ==
            FMin(FMul(sig.confidence, MaxPositionSize), MaxPositionSize)
        trade_value == FMul(R(capital, 1), position_size)
    IN  IntOf(FDiv(trade_value, R(sig.current_price, 1)))

\* shares_to_sell = int(position['quantity'] * signal['confidence'])
SharesToSell(position, sig) == IntOf(FMul(position.quantity, sig.confidence))

\* one iteration of "for symbol, signal in signals.items()" in execute_trades
ExecuteSignal(g, entry, position, success) ==
    LET sig == entry.signal
        h == [g EXCEPT !.idx = @ + 1]
    IN  IF sig.action = "HOLD" THEN h
        ELSE IF sig.action = "BUY"
        THEN IF SharesToBuy(g.initial_capital, sig) > 0
             THEN Submit(h, entry, "BUY", SharesToBuy(g.initial_capital, sig),
                         position, success)
             ELSE h
        ELSE IF sig.action = "SELL" /\ position.held
                /\ position.quantity.num > 0
        THEN IF SharesToSell(position, sig) > 0
             THEN Submit(h, entry, "SELL", SharesToSell(position, sig),
                         position, success)
             ELSE h
        ELSE h

\* ARIMAPortfolioTrader(portfolio_id, initial_capital) followed by
\* run_trading_cycle up to the portfolio query of generate_portfolio_signals
RunTradingCycleCall ==
    /\ pc = "idle"
    /\ gen.pc = "none"
    /\ \E capital \in Capitals, stocks \in StockLists :
          /\ gen' = [gen EXCEPT
                       !.pc = IF stocks = <<>> THEN "done" ELSE "signals",
                       !.initial_capital = capital,
                       !.stocks = stocks,
                       !.idx = 1]
    /\ UNCHANGED <<confidence_threshold, prediction_horizon, model,
                   predictions, signals, pc, test_data, initial_capital, i,
                   portfolio, results, error, call, signal, search, run,
                   trader, backtests>>

\* generate_portfolio_signals: one stock of the loop, current_price being
\* the last stored price or else avg_cost; after the last stock
\* run_trading_cycle goes on to execute_trades(signals)
GeneratePortfolioSignalsStep ==
    /\ gen.pc = "signals"
    /\ \E length \in TrainingLengths, current_price \in Prices :
       \E found \in FoundModels(gen.stocks[gen.idx].symbol, gen.idx,
                                length) :
          LET g == SignalForStock(gen, gen.stocks[gen.idx], length, found,
                                  current_price)
          IN  gen' = IF g.idx > Len(g.stocks)
                     THEN [g EXCEPT !.pc = "trades", !.idx = 1]
                     ELSE g
    /\ UNCHANGED <<confidence_threshold, prediction_horizon, model,
                   predictions, signals, pc, test_data, initial_capital, i,
                   portfolio, results, error, call, signal, search, run,
                   trader, backtests>>

\* execute_trades: one signal of the loop
ExecuteTradesStep ==
    /\ gen.pc = "trades"
    /\ gen.idx <= Len(gen.signals)
    /\ \E position \in Positions, success \in BOOLEAN :
          gen' = ExecuteSignal(gen, gen.signals[gen.idx], position, success)
    /\ UNCHANGED <<confidence_threshold, prediction_horizon, model,
                   predictions, signals, pc, test_data, initial_capital, i,
                   portfolio, results, error, call, signal, search, run,
                   trader, backtests>>

\* execute_trades: self.trading_history.extend(executed_trades)
ExecuteTradesReturn ==
    /\ gen.pc = "trades"
    /\ gen.idx > Len(gen.signals)
    /\ gen' = [gen EXCEPT !.pc = "done",
                          !.trading_history = @ \o gen.executed_trades]
    /\ UNCHANGED <<confidence_threshold, prediction_horizon, model,
                   predictions, signals, pc, test_data, initial_capital, i,
                   portfolio, results, error, call, signal, search, run,
                   trader, backtests>>

NextCycle ==
    \/ RunTradingCycleCall
    \/ GeneratePortfolioSignalsStep
    \/ ExecuteTradesStep
    \/ ExecuteTradesReturn

SpecCycle == Init /\ [][NextCycle]_vars


\* ------------------------------------------------------------------------
\* properties
\* ------------------------------------------------------------------------
\* a step of the backtest loop is being taken
IsStep == pc = "loop" /\ i' = i + 1

\* the price of the step being taken
StepPrice == test_data[i + 1]

\* C1: the value appended at a step equals cash + shares * test[i], with
\* cash and shares as they are after that step's trade rule; the value
\* history has one entry per simulated step.
C1_ValueIdentity ==
    (pc \in {"loop", "done"} /\ i > 0) =>
        /\ Len(portfolio.portfolio_values) = i
        /\ portfolio.portfolio_values[i] =
              portfolio.cash + portfolio.shares * test_data[i]

C1_Witness ==
    /\ pc = "loop" /\ i > 1
    /\ portfolio.shares > 0 /\ portfolio.cash > 0
    /\ portfolio.portfolio_values[i] # portfolio.portfolio_values[i - 1]

\* C2: a step's trade rule conserves value: cash + shares * price, valued
\* at the step's price, is the same after the rule as before it.
C2_Conservation ==
    [][IsStep =>
          portfolio'.cash + portfolio'.shares * StepPrice
              = portfolio.cash + portfolio.shares * StepPrice]_vars

C2_Witness ==
    /\ pc = "loop"
    /\ Len(portfolio.trades) >= 2
    /\ portfolio.trades[1].action = "BUY"
    /\ portfolio.trades[2].action = "SELL"

\* C3: backtest never returns a result when the test partition has at most
\* prediction_horizon observations.
C3_Claim == pc = "done" => Len(test_data) > prediction_horizon

\* C4: on a BUY signal exactly floor(cash / price) shares are bought, at
\* least one whenever cash >= price, and afterwards 0 <= cash < price.
C4_Claim ==
    [][(IsStep /\ signal'.action = "BUY") =>
          /\ portfolio'.shares
                = portfolio.shares + (portfolio.cash \div StepPrice)
          /\ (portfolio.cash >= StepPrice
                => portfolio'.shares >= portfolio.shares + 1)
          /\ 0 <= portfolio'.cash
          /\ portfolio'.cash < StepPrice]_vars

\* C5: a SELL signal with shares held liquidates the position: no share is
\* left, cash grows by shares * price, and the logged trade carries the
\* number of shares held before the sale.
C5_SellLiquidates ==
    [][(IsStep /\ signal'.action = "SELL" /\ portfolio.shares > 0) =>
          /\ portfolio'.shares = 0
          /\ portfolio'.cash = portfolio.cash + portfolio.shares * StepPrice
          /\ Len(portfolio'.trades) = Len(portfolio.trades) + 1
          /\ Last(portfolio'.trades).action = "SELL"
          /\ Last(portfolio'.trades).shares = portfolio.shares
          /\ Last(portfolio'.trades).value = portfolio.shares * StepPrice]_vars

C5_Witness ==
    /\ pc = "loop"
    /\ portfolio.trades # <<>>
    /\ Last(portfolio.trades).action = "SELL"
    /\ Last(portfolio.trades).shares > 1
    /\ portfolio.shares = 0

\* C6: a step whose signal is HOLD, or BUY with cash below the price of one
\* share, or SELL with no share held, leaves cash, shares and the trade log
\* unchanged and appends exactly one entry to the value history.
C6_NoOpFrame ==
    [][(IsStep /\ (\/ signal'.action = "HOLD"
                   \/ signal'.action = "BUY" /\ portfolio.cash < StepPrice
                   \/ signal'.action = "SELL" /\ portfolio.shares = 0)) =>
          /\ portfolio'.cash = portfolio.cash
          /\ portfolio'.shares = portfolio.shares
          /\ portfolio'.trades = portfolio.trades
          /\ Len(portfolio'.portfolio_values)
                = Len(portfolio.portfolio_values) + 1
          /\ SubSeq(portfolio'.portfolio_values, 1,
                    Len(portfolio.portfolio_values))
                = portfolio.portfolio_values]_vars

C6_Witness ==
    /\ pc = "loop" /\ i > 1
    /\ signal.action = "SELL"
    /\ portfolio.trades = <<>>
    /\ Len(portfolio.portfolio_values) = i

\* C7: a trade is logged exactly at the steps where cash or shares change;
\* every logged trade has shares > 0 and value = shares * price, and
\* num_trades is the length of the log.
C7_TradeLog ==
    [][/\ IsStep =>
            IF \/ portfolio'.cash # portfolio.cash
               \/ portfolio'.shares # portfolio.shares
            THEN /\ Len(portfolio'.trades) = Len(portfolio.trades) + 1
                 /\ SubSeq(portfolio'.trades, 1, Len(portfolio.trades))
                       = portfolio.trades
                 /\ Last(portfolio'.trades).date = i
            ELSE portfolio'.trades = portfolio.trades
       /\ \A k \in 1..Len(portfolio'.trades) :
            /\ portfolio'.trades[k].action \in {"BUY", "SELL"}
            /\ portfolio'.trades[k].shares > 0
            /\ portfolio'.trades[k].value
                  = portfolio'.trades[k].shares * portfolio'.trades[k].price
       /\ pc' = "done" =>
            results'.num_trades = Len(portfolio'.trades)]_vars

C7_Witness ==
    /\ pc = "done"
    /\ i = 2
    /\ results.num_trades = 1
    /\ results.portfolio.trades[1].date = 1

\* C8: on completion final_value is the last entry of the value history,
\* total_return = (final_value - initial_capital) / initial_capital,
\* buy_hold_return = (test.last - test.first) / test.first and
\* excess_return = total_return - buy_hold_return.
C8_Claim ==
    pc = "done" =>
        LET pv == results.portfolio.portfolio_values
            tr == results.total_return
            bh == results.buy_hold_return
            ex == results.excess_return
        IN  /\ pv # <<>>
            /\ results.final_value = Last(pv)
            /\ tr.num * initial_capital
                  = (results.final_value - initial_capital) * tr.den
            /\ bh.num * Head(test_data)
                  = (Last(test_data) - Head(test_data)) * bh.den
            /\ ex.num * tr.den * bh.den
                  = (tr.num * bh.den - bh.num * tr.den) * ex.den

\* C9: with expectedReturn = (forecast.last - currentPrice) / currentPrice
\* the action is BUY iff expectedReturn > threshold, SELL iff
\* expectedReturn < -threshold, HOLD otherwise; only the last forecast
\* value is used.
C9_SignalRule ==
    (call.made /\ ~call.predictions.none
        /\ call.predictions.prediction # <<>>) =>
        LET last == Last(call.predictions.prediction)
            cur == call.current_price
            t == confidence_threshold
            up == (last - cur) * t.den > t.num * cur
            down == (last - cur) * t.den < -(t.num * cur)
        IN  /\ signal.action = "BUY" <=> up
            /\ signal.action = "SELL" <=> down
            /\ signal.action = "HOLD" <=> (~up /\ ~down)
            /\ ~(up /\ down)
            /\ signal.predicted_price = last
            /\ signal.expected_return.num * cur
                  = (last - cur) * signal.expected_return.den

C9_Witness ==
    /\ call.made /\ ~call.predictions.none
    /\ Len(call.predictions.prediction) = 2
    /\ Head(call.predictions.prediction) < call.current_price
    /\ Last(call.predictions.prediction) > call.current_price
    /\ confidence_threshold.num > 0
    /\ signal.action = "HOLD"

\* C10: every signal has an action among BUY, SELL, HOLD and a confidence
\* in [0, 1], for every threshold >= 0 and also without a forecast.
C10_Claim ==
    call.made =>
        /\ signal.action \in {"BUY", "SELL", "HOLD"}
        /\ signal.confidence.kind = "fin"
        /\ 0 <= signal.confidence.num
        /\ signal.confidence.num <= signal.confidence.den

C12_MinAic ==
    (search.pc \in {"returned", "done"} /\ search.results # <<>>) =>
        /\ search.best_model.fitted
        /\ search.best_model.order = search.best_order
        /\ \E k \in 1..Len(search.results) :
              /\ search.results[k].order = search.best_order
              /\ search.results[k].AIC = search.best_model.aic
              /\ \A j \in 1..Len(search.results) :
                    search.results[k].AIC <= search.results[j].AIC

C12_Witness ==
    /\ search.pc = "returned"
    /\ Len(search.results) >= 3
    /\ search.best_order = search.results[2].order
    /\ search.results[2].AIC < search.results[1].AIC
    /\ search.results[2].AIC < search.results[3].AIC

\* C13: when no candidate fits, order selection does not return normally
\* with a null order and model, and the caller fails with a model-selection
\* error rather than with an unrelated fault.
C13_Claim ==
    /\ search.pc = "returned" => search.best_order # <<>>
    /\ (search.pc = "done" /\ search.results = <<>>)
          => error = "ModelSelectionFailure"

\* C14: a forecast requested while no model is fitted fails with an error,
\* produces no forecast and leaves the stored predictions as they were.
C14_NoModelForecast ==
    [][(/\ ~model.fitted /\ model' = model
        /\ ~call'.made /\ error' # "AttributeError") =>
          /\ error' = "ValueError"
          /\ predictions' = predictions]_vars

C14_Witness ==
    /\ ~model.fitted
    /\ error = "ValueError"
    /\ ~predictions.none
    /\ Len(predictions.prediction) = 2

\* C15 (as stated): the allocations handed to the per-asset backtests of a
\* portfolio run sum to the initial capital, also when assets are skipped.
C15_Claim ==
    (run.pc = "done" /\ run.results.returned) =>
        LET total == SumAllocations(run.handed)
        IN  total.num = run.initial_capital * total.den

\* C15 (amended): every per-asset backtest is handed initial_capital / N
\* with N the number of portfolio symbols, so the handed allocations sum
\* to initial_capital * (assets backtested) / N, which is the initial
\* capital exactly when no asset is skipped.
C15_EqualShares ==
    LET total == SumAllocations(run.handed)
        n == Len(run.symbols)
    IN  n >= 1 =>
          /\ \A k \in 1..Len(run.handed) :
                run.handed[k].initial_capital.num * n
                    = run.initial_capital * run.handed[k].initial_capital.den
          /\ total.num * n
                = run.initial_capital * Len(run.handed) * total.den
          /\ Len(run.handed) = n =>
                total.num = run.initial_capital * total.den

C15_Witness ==
    /\ run.pc = "done"
    /\ Len(run.symbols) = 2
    /\ Len(run.handed) = 1
    /\ run.handed[1].symbol = 2

\* C16: an asset with too short a history is recorded as skipped: the
\* returned result does not report it among the backtested assets, and the
\* aggregate figures come from the other assets only.
C16_Claim ==
    (run.pc = "done" /\ run.results.returned) =>
        \A k \in 1..Len(run.results.symbols_tested) :
            \E h \in 1..Len(run.handed) :
                run.handed[h].symbol = run.results.symbols_tested[k]

\* C17: a failure raised while one asset is backtested is caught inside the
\* portfolio run, so the run goes on and returns an aggregate result.
C17_Claim == run.pc # "raised"

\* C18 (as stated): the Sharpe computation never raises and yields the
\* sentinel when the volatility is 0 or fewer than two data points exist,
\* and the total return over a single data point is 0.
C18_Claim ==
    trader.performance_metrics.computed =>
        LET m == trader.performance_metrics
            history == trader.trading_history
        IN  /\ (Len(history) < 2 \/ ~StdPositive(Returns(history)))
                  => m.sharpe_ratio = R(0, 1)
            /\ Len(history) <= 1 => m.total_return.num = 0

\* C18 (amended): the Sharpe computation never raises and yields the
\* sentinel 0 when no return can be formed or the returns have zero
\* volatility, a finite ratio otherwise; the total return is
\* (current_value - initial_capital) / initial_capital whatever the number
\* of data points.
C18_Sharpe ==
    trader.performance_metrics.computed =>
        LET m == trader.performance_metrics
            history == trader.trading_history
            returns == Returns(history)
        IN  /\ (Len(history) < 2 \/ returns = <<>> \/ ~StdPositive(returns))
                  => m.sharpe_ratio = R(0, 1)
            /\ m.sharpe_ratio.kind \in {"fin", "ratio"}
            /\ m.sharpe_ratio.kind = "ratio" => StdPositive(returns)
            /\ m.total_return.kind = "fin"
            /\ m.total_return.num * m.initial_capital
                  = (m.current_value - m.initial_capital) * m.total_return.den
            /\ m.num_trades = Len(history)

C18_Witness ==
    /\ trader.performance_metrics.computed
    /\ Len(Returns(trader.trading_history)) = 2
    /\ ~StdPositive(Returns(trader.trading_history))
    /\ trader.performance_metrics.sharpe_ratio = R(0, 1)
    /\ trader.performance_metrics.total_return.num # 0

\* C19: backtest simulates the steps i = 0 .. len(test) - horizon - 1 in
\* order with currentPrice = test[i]; on return the value history has
\* exactly len(test) - horizon entries and the step indices of the trades
\* lie in that range and never decrease.
C19_Claim ==
    pc = "done" =>
        LET pf == results.portfolio
            n == Len(test_data) - prediction_horizon
        IN  /\ Len(pf.portfolio_values) = n
            /\ Len(signals) = n
            /\ \A k \in 1..Len(signals) :
                  signals[k].current_price = test_data[k]
            /\ \A k \in 1..Len(pf.trades) :
                  /\ 0 <= pf.trades[k].date
                  /\ pf.trades[k].date <= n - 1
                  /\ k > 1 => pf.trades[k - 1].date <= pf.trades[k].date

\* C20: the model is fitted once before the first step and no step refits
\* it; every step uses the same forecast, so the signal of a step depends
\* on the price of that step alone.
C20_FitOnce ==
    [][/\ pc = "loop" => model' = model
       /\ (IsStep /\ i > 0) => call'.predictions = call.predictions
       /\ IsStep =>
            /\ call'.predictions = Frame(Forecast(model, prediction_horizon))
            /\ signal' = generate_signals(StepPrice, call'.predictions,
                                           NoFrame, confidence_threshold)
       /\ \A j, k \in 1..Len(signals') :
            signals'[j].current_price = signals'[k].current_price
                => signals'[j] = signals'[k]]_vars

C20_Witness ==
    /\ pc = "loop" /\ i = 2
    /\ Len(signals) = 2
    /\ signals[1].action # signals[2].action
    /\ model.fitted

\* C21: find_optimal_order tries only d = 0 when the series tests
\* stationary, and exactly d = 1..max_d (never d = 0) otherwise; with
\* max_d = 0 and a non-stationary series no candidate is attempted.
C21_DRange ==
    LET tried == {search.attempted[k].order[2] :
                     k \in 1..Len(search.attempted)}
    IN  /\ search.is_stationary => tried \subseteq {0}
        /\ ~search.is_stationary => tried \subseteq 1..search.max_d
        /\ (search.pc \in {"returned", "done"} /\ ~search.is_stationary)
              => tried = 1..search.max_d
        /\ (search.pc \in {"returned", "done"} /\ search.is_stationary
               /\ search.max_p + search.max_q > 0) => tried = {0}
        /\ (~search.is_stationary /\ search.max_d = 0)
              => search.attempted = <<>>

C21_Witness ==
    /\ search.pc = "returned"
    /\ ~search.is_stationary
    /\ search.max_d = 2
    /\ Len(search.attempted) = 4
    /\ search.attempted[1].order[2] = 1
    /\ search.attempted[4].order[2] = 2

\* C22: every (p, d, q) of the grid is attempted exactly once, except
\* (0,0,0) which never is; a failed fit does not abort the search, and the
\* recorded candidate list holds exactly the successfully fitted orders.
C22_Grid ==
    search.pc \in {"returned", "done"} =>
        LET at == search.attempted
            fits == SelectSeq(at, LAMBDA a : a.fitted)
        IN  /\ \A p \in 0..search.max_p, q \in 0..search.max_q,
                  k \in 1..Len(search.d_range) :
                  LET order == <<p, search.d_range[k], q>>
                      calls == {j \in 1..Len(at) : at[j].order = order}
                  IN  Cardinality(calls)
                        = IF order = <<0, 0, 0>> THEN 0 ELSE 1
            /\ \A j \in 1..Len(at) :
                  /\ at[j].order[1] \in 0..search.max_p
                  /\ at[j].order[3] \in 0..search.max_q
                  /\ \E k \in 1..Len(search.d_range) :
                        at[j].order[2] = search.d_range[k]
            /\ Len(search.results) = Len(fits)
            /\ \A j \in 1..Len(fits) :
                  search.results[j].order = fits[j].order

C22_Witness ==
    /\ search.pc = "returned"
    /\ search.is_stationary
    /\ Len(search.attempted) = 3
    /\ ~search.attempted[1].fitted
    /\ search.attempted[2].fitted
    /\ ~search.attempted[3].fitted
    /\ Len(search.results) = 1

\* C23: among fitted candidates sharing the minimum AIC the one met first
\* in enumeration order (d outermost, then p, then q, each ascending) is
\* selected; a later candidate of equal AIC never replaces the best.
C23_FirstMinimum ==
    (search.pc \in {"returned", "done"} /\ search.results # <<>>) =>
        LET rs == search.results
        IN  /\ \E k \in 1..Len(rs) :
                  /\ rs[k].order = search.best_order
                  /\ \A j \in 1..Len(rs) : rs[k].AIC <= rs[j].AIC
                  /\ \A j \in 1..(k - 1) : rs[j].AIC > rs[k].AIC
            /\ \A j, k \in 1..Len(rs) :
                  j < k =>
                    LET a == rs[j].order
                        b == rs[k].order
                    IN  \/ a[2] < b[2]
                        \/ a[2] = b[2] /\ a[1] < b[1]
                        \/ a[2] = b[2] /\ a[1] = b[1] /\ a[3] < b[3]

C23_Witness ==
    /\ search.pc = "returned"
    /\ Len(search.results) = 3
    /\ search.results[1].AIC > search.results[2].AIC
    /\ search.results[2].AIC = search.results[3].AIC
    /\ search.best_order = search.results[2].order

\* C26: at every step of a backtest cash >= 0 and the number of shares held
\* is a non-negative whole number: the simulation never borrows and never
\* holds a short position.
C26_NoDebt ==
    pc \in {"loop", "done"} =>
        /\ portfolio.cash \in Nat
        /\ portfolio.shares \in Nat
        /\ \A k \in 1..Len(portfolio.trades) :
              portfolio.trades[k].shares \in Nat
        /\ \A k \in 1..Len(portfolio.portfolio_values) :
              portfolio.portfolio_values[k] >= 0

C26_Witness ==
    /\ pc = "loop"
    /\ portfolio.shares = 2
    /\ portfolio.cash = 1
    /\ initial_capital = 5

C25_PrivateState ==
    [][/\ (pc' = "loop" /\ pc # "loop") =>
            /\ portfolio'.cash = initial_capital'
            /\ portfolio'.shares = 0
            /\ portfolio'.trades = <<>>
            /\ portfolio'.portfolio_values = <<>>
       /\ (pc' = "done" /\ pc = "loop") =>
            LET alone == RunAlone(
                           [cash |-> initial_capital, shares |-> 0,
                            total_value |-> initial_capital,
                            trades |-> <<>>, portfolio_values |-> <<>>],
                           0, test_data, model, confidence_threshold,
                           prediction_horizon)
            IN  /\ results'.portfolio = alone
                /\ results'.final_value = alone.total_value
                /\ results'.num_trades = Len(alone.trades)
                /\ results'.initial_capital = initial_capital]_vars

C25_Witness ==
    /\ backtests = 2
    /\ pc = "done"
    /\ Len(signals) > Len(results.portfolio.portfolio_values)
    /\ results.num_trades = 2
    /\ results.portfolio.trades[1].action = "BUY"
    /\ results.portfolio.trades[1].date = 0

\* C24: for an asset whose stored history is shorter than the minimum
\* exactly one refresh is attempted and the history re-checked once; if it
\* is still too short the asset is abandoned without a backtest and without
\* a second refresh.
C24_Claim ==
    (run.pc = "done" /\ run.results.returned) =>
        /\ run.refreshes = Len(run.symbols) - Len(run.handed)
        /\ run.refreshes <= Len(run.symbols)

\* ------------------------------------------------------------------------
\* C28: with the positive threshold of the trader, every BUY and every SELL
\* signal of generate_signals has confidence exactly 1, every BUY that
\* execute_trades submits is sized at the full max_position_size, and every
\* SELL it submits is for the entire held quantity
\* ------------------------------------------------------------------------
C28_Claim ==
    /\ \A k \in 1..Len(gen.signals) :
          gen.signals[k].signal.action \in {"BUY", "SELL"}
             => gen.signals[k].signal.confidence = One
    /\ \A k \in 1..Len(gen.submitted) :
          LET s == gen.submitted[k]
          IN  /\ s.trade.action = "BUY" =>
                    s.trade.shares =
                       IntOf(FDiv(FMul(R(gen.initial_capital, 1),
                                       MaxPositionSize),
                                  R(s.trade.price, 1)))
              /\ s.trade.action = "SELL" =>
                    s.trade.shares * s.position.quantity.den
                       = s.position.quantity.num

\* ------------------------------------------------------------------------
\* C29: execute_trades submits no trade for a HOLD signal, no BUY worth
\* more than max_position_size * initial_capital, no SELL for more shares
\* than are held or without a position, no trade of 0 shares, and it
\* appends to trading_history exactly the trades the portfolio manager
\* reported as successful
\* ------------------------------------------------------------------------
C29_Safe ==
    /\ \A k \in 1..Len(gen.submitted) :
          LET s == gen.submitted[k]
          IN  /\ s.trade.signal.action # "HOLD"
              /\ s.trade.action = s.trade.signal.action
              /\ s.trade.shares > 0
              /\ s.trade.action = "BUY" =>
                    s.trade.shares * s.trade.price * MaxPositionSize.den
                       <= MaxPositionSize.num * gen.initial_capital
              /\ s.trade.action = "SELL" =>
                    /\ s.position.held
                    /\ s.position.quantity.num > 0
                    /\ s.trade.shares * s.position.quantity.den
                          <= s.position.quantity.num
    /\ LET successful == SelectSeq(gen.submitted, LAMBDA s : s.success)
       IN  /\ gen.executed_trades
                 = [k \in 1..Len(successful) |-> successful[k].trade]
           /\ gen.trading_history
                 = IF gen.pc = "done" THEN gen.executed_trades ELSE <<>>

\* execute_trades has returned after a BUY the portfolio manager rejected
\* and a SELL it accepted: only the SELL is in the trade history
C29_Witness ==
    /\ gen.pc = "done"
    /\ Len(gen.submitted) = 2
    /\ gen.submitted[1].trade.action = "BUY"
    /\ ~gen.submitted[1].success
    /\ gen.submitted[2].trade.action = "SELL"
    /\ gen.submitted[2].success
    /\ Len(gen.trading_history) = 1
    /\ gen.trading_history[1].action = "SELL"

\* ------------------------------------------------------------------------
\* C30: in generate_portfolio_signals the signal of a symbol whose training
\* succeeded is computed from the model fitted on that symbol's history in
\* the same iteration; a symbol whose training failed (no data, fewer than
\* 30 points, no order converges) gets HOLD with confidence 0 and no model,
\* in particular not the one left over from an earlier symbol, is used
\* ------------------------------------------------------------------------
C30_OwnModel ==
    \A k \in 1..Len(gen.signals) :
        LET e == gen.signals[k]
        IN  /\ e.symbol = gen.stocks[k].symbol
            /\ IF e.length < MinTrainingPoints \/ ~e.found.fitted
               THEN /\ e.signal.action = "HOLD"
                    /\ e.signal.confidence = R(0, 1)
                    /\ e.forecast_of = NoModel
               ELSE /\ e.forecast_of = e.found
                    /\ e.forecast_of.symbol = e.symbol
                    /\ e.forecast_of.iteration = k
                    /\ e.signal.predicted_price = Last(e.found.path)

\* the first symbol was trained and got a BUY; for the second no order
\* converged while the first symbol's model was still stored
C30_Witness ==
    /\ Len(gen.signals) = 2
    /\ gen.signals[1].found.fitted
    /\ gen.signals[1].signal.action = "BUY"
    /\ gen.signals[2].length = MinTrainingPoints
    /\ ~gen.signals[2].found.fitted
    /\ gen.signals[2].signal.action = "HOLD"
    /\ gen.model.fitted
    /\ gen.model.symbol = gen.signals[1].symbol

=============================================================================
